---- MODULE Spec2Model ----
(***************************************************************************)
(* A model of stibium's semantic core: the SymbolType lattice (types.py),  *)
(* the SymbolTable (symbols.py) and the AntTreeAnalyzer (analysis.py).     *)
(*                                                                         *)
(* Python strings are sequences of one-character strings, so that          *)
(* str.format and str.strip are computed and not assumed.  Python's None   *)
(* is the record None.  A tree node is a record: a leaf has kind, range    *)
(* and text; a trunk has kind, range and children.  A dict is a function   *)
(* whose DOMAIN is the set of keys present.                                *)
(***************************************************************************)
EXTENDS Integers, Sequences, FiniteSets, TLC

VARIABLES
    table,          \* SymbolTable._table: scope key -> (name -> Symbol)
    issues,         \* SymbolTable._issues (aliased by Analyzer.semantic_issues)
    qnames,         \* SymbolTable._qnames, the flat insertion-order log
    calls,          \* history: the insert / insert_annotation calls made so far
    ret,            \* the value returned by the most recent query call
    cmp,            \* the operands of derives_from in SpecLattice
    root,           \* the FileNode handed to the tree builder and the Analyzer
    pc,             \* how far the pipeline got: built, linked, done
    syntax_issues   \* Analyzer.syntax_issues

analyzer == <<root, pc, syntax_issues>>

vars == <<table, issues, qnames, calls, ret, cmp, root, pc, syntax_issues>>

None == [kind |-> "None"]

(***************************************************************************)
(* Bounds of the model.                                                    *)
(***************************************************************************)
MaxCalls == 3       \* insert / insert_annotation calls in Spec
MaxPairCalls == 2   \* insert calls in SpecPairs
MaxNameCalls == 2   \* insert calls in SpecNames
MaxChildren == 2    \* children of the root in SpecAnalyzer
MaxLine == 2        \* source lines in SpecAnalyzer

MaxScopeCalls == 2      \* insert / insert_annotation calls in SpecScopes
MaxQueryChildren == 1   \* children of the root in SpecQueries
SlotWidth == 20     \* columns between the starts of two children of the root

(***************************************************************************)
(* types.py                                                                *)
(***************************************************************************)
SrcPosition(line, column) == [line |-> line, column |-> column]

SrcRange(start, end) == [start |-> start, end |-> end]

\* SrcPosition.__ge__ / __lt__
SrcPosition_ge(self, other) ==
    IF self.line > other.line THEN TRUE
    ELSE IF self.line = other.line THEN self.column >= other.column
    ELSE FALSE

SrcPosition_lt(self, other) ==
    IF self.line < other.line THEN TRUE
    ELSE IF self.line = other.line THEN self.column < other.column
    ELSE FALSE

SymbolType ==
    {"unknown", "variable", "submodel", "model", "function", "unit",
     "parameter", "species", "compartment", "reaction", "event", "constraint"}

\* derives_from without the test for the top type
derives_from_NoTop(self, other) ==
    IF self = other THEN TRUE
    ELSE LET derives_from_param ==
                 self \in {"species", "compartment", "reaction", "constraint"}
         IN  IF other = "variable" THEN derives_from_param \/ self = "parameter"
             ELSE IF other = "parameter" THEN derives_from_param
             ELSE FALSE

\* derives_from without the test for equal types
derives_from_NoEqual(self, other) ==
    IF other = "unknown" THEN TRUE
    ELSE LET derives_from_param ==
                 self \in {"species", "compartment", "reaction", "constraint"}
         IN  IF other = "variable" THEN derives_from_param \/ self = "parameter"
             ELSE IF other = "parameter" THEN derives_from_param
             ELSE FALSE

derives_from(self, other) ==
    IF self = other THEN TRUE
    ELSE IF other = "unknown" THEN TRUE
    ELSE LET derives_from_param ==
                 self \in {"species", "compartment", "reaction", "constraint"}
         IN  IF other = "variable" THEN derives_from_param \/ self = "parameter"
             ELSE IF other = "parameter" THEN derives_from_param
             ELSE FALSE

\* Issue.__init__ and the two semantic issue classes.  The message string is a
\* rendering of the fields kept here and is not modelled.
IncompatibleType(old_type, old_range, new_type, new_range) ==
    [kind |-> "IncompatibleType", range |-> new_range, severity |-> "Error",
     old_type |-> old_type, old_range |-> old_range,
     new_type |-> new_type, new_range |-> new_range]

ObscuredValue(old_range, new_range, name) ==
    [kind |-> "ObscuredValue", range |-> old_range, severity |-> "Warning",
     old_range |-> old_range, new_range |-> new_range, name |-> name]

UnexpectedTokenIssue(leaf_range, leaf_name) ==
    [kind |-> "UnexpectedToken", range |-> leaf_range, severity |-> "Error",
     name |-> leaf_name]

UnexpectedEOFIssue(last_leaf_range) ==
    [kind |-> "UnexpectedEOF", range |-> last_leaf_range, severity |-> "Error"]

UnexpectedNewlineIssue(leaf_pos) ==
    [kind |-> "UnexpectedNewline",
     range |-> SrcRange(leaf_pos, SrcPosition(leaf_pos.line + 1, 1)),
     severity |-> "Error"]

(***************************************************************************)
(* ant_types.py.  A leaf's prev and next are references to leaves, by the  *)
(* path of child indices from the root, or None.                           *)
(***************************************************************************)
LeafNode(cls, range, text) ==
    [kind |-> cls, range |-> range, text |-> text, prev |-> None, next |-> None]

TrunkNode(cls, range, children) ==
    [kind |-> cls, range |-> range, children |-> children]

Name(range, text) == LeafNode("Name", range, text)

\* hasattr(node, 'children') / isinstance(node, LeafNode)
IsTrunk(node) == "children" \in DOMAIN node

IsLeaf(node) == "text" \in DOMAIN node

Ref(path) == [kind |-> "ref", path |-> path]

RECURSIVE NodeAt(_, _)
NodeAt(node, path) ==
    IF path = <<>> THEN node
    ELSE NodeAt(node.children[Head(path)], Tail(path))

\* TrunkNode.last_leaf
RECURSIVE last_leaf(_)
RECURSIVE LastLeafFrom(_, _)
LastLeafFrom(children, i) ==
    IF i = 0 THEN None
    ELSE IF children[i] = None THEN LastLeafFrom(children, i - 1)
    ELSE IF IsLeaf(children[i]) THEN children[i]
    ELSE IF last_leaf(children[i]) # None THEN last_leaf(children[i])
    ELSE LastLeafFrom(children, i - 1)

last_leaf(node) == LastLeafFrom(node.children, Len(node.children))

\* _scan_leaves: the leaves under node, in order
RECURSIVE scan_leaves(_)
RECURSIVE ScanLeavesFrom(_, _)
ScanLeavesFrom(children, i) ==
    IF i > Len(children) THEN <<>>
    ELSE IF children[i] = None THEN ScanLeavesFrom(children, i + 1)
    ELSE scan_leaves(children[i]) \o ScanLeavesFrom(children, i + 1)

scan_leaves(node) ==
    IF IsTrunk(node) THEN ScanLeavesFrom(node.children, 1) ELSE <<node>>

\* TrunkNode.descendants: node and every node under it, in preorder
RECURSIVE descendants(_)
RECURSIVE DescendantsFrom(_, _)
DescendantsFrom(children, i) ==
    IF i > Len(children) THEN <<>>
    ELSE IF children[i] = None THEN DescendantsFrom(children, i + 1)
    ELSE IF ~IsTrunk(children[i])
    THEN <<children[i]>> \o DescendantsFrom(children, i + 1)
    ELSE descendants(children[i]) \o DescendantsFrom(children, i + 1)

descendants(node) == <<node>> \o DescendantsFrom(node.children, 1)

\* The accessors of the trunk classes (tuples are indexed from 1 here).
VarName_get_name(node) == node.children[2]

InComp_get_comp(node) == node.children[2]

NameMaybeIn_get_var_name(node) == node.children[1]

Species_get_name(node) == node.children[3]

\* children[::2]
RECURSIVE EverySecond(_, _)
EverySecond(children, i) ==
    IF i > Len(children) THEN <<>>
    ELSE <<children[i]>> \o EverySecond(children, i + 2)

SpeciesList_get_all_species(node) == EverySecond(node.children, 1)

ReactionName_get_name(node) ==
    VarName_get_name(NameMaybeIn_get_var_name(node.children[1]))

Reaction_get_name(node) ==
    IF node.children[1] = None THEN None
    ELSE ReactionName_get_name(node.children[1])

Reaction_get_reactants(node) ==
    IF node.children[2] # None THEN SpeciesList_get_all_species(node.children[2])
    ELSE <<>>

Reaction_get_products(node) ==
    IF node.children[4] # None THEN SpeciesList_get_all_species(node.children[4])
    ELSE <<>>

Reaction_get_rate_law(node) == node.children[6]

Assignment_get_name(node) ==
    VarName_get_name(NameMaybeIn_get_var_name(node.children[1]))

Assignment_get_value(node) == node.children[3]

S_species == <<"s", "p", "e", "c", "i", "e", "s">>
S_compartment == <<"c", "o", "m", "p", "a", "r", "t", "m", "e", "n", "t">>
S_formula == <<"f", "o", "r", "m", "u", "l", "a">>

DeclModifiers_get_type(node) ==
    IF node.children[2] = None THEN "unknown"
    ELSE CASE node.children[2].text = S_species     -> "species"
           [] node.children[2].text = S_compartment -> "compartment"
           [] node.children[2].text = S_formula     -> "parameter"

DeclAssignment_get_value(node) == node.children[2]

DeclItem_get_maybein(node) == node.children[1]

DeclItem_get_value(node) ==
    IF node.children[2] = None THEN None
    ELSE DeclAssignment_get_value(node.children[2])

Declaration_get_modifiers(node) == node.children[1]

\* children[1::2]
Declaration_get_items(node) == EverySecond(node.children, 2)

Annotation_get_var_name(node) == node.children[1]

SimpleStmt_get_stmt(node) == node.children[1]

(***************************************************************************)
(* tree_builder.py: set_leaf_pointers, on the tree root, for the node at   *)
(* path.  Returns the tree after the call and the returned leaf reference. *)
(***************************************************************************)
RECURSIVE SetPrev(_, _, _)
SetPrev(node, path, ref) ==
    IF path = <<>> THEN [node EXCEPT !.prev = ref]
    ELSE [node EXCEPT !.children[Head(path)] = SetPrev(@, Tail(path), ref)]

RECURSIVE SetNext(_, _, _)
SetNext(node, path, ref) ==
    IF path = <<>> THEN [node EXCEPT !.next = ref]
    ELSE [node EXCEPT !.children[Head(path)] = SetNext(@, Tail(path), ref)]

RECURSIVE set_leaf_pointers(_, _, _)
RECURSIVE SetLeafPointersFrom(_, _, _, _)
\* the loop over root.children, forgetting the last leaf after a child without leaves
SetLeafPointersFrom_NoKeep(tree, path, i, last) ==
    IF i > Len(NodeAt(tree, path).children) THEN [tree |-> tree, ret |-> last]
    ELSE LET r == set_leaf_pointers(tree, path \o <<i>>, last)
         IN  SetLeafPointersFrom(r.tree, path, i + 1, r.ret)

\* the loop over root.children, at child i
SetLeafPointersFrom(tree, path, i, last) ==
    IF i > Len(NodeAt(tree, path).children) THEN [tree |-> tree, ret |-> last]
    ELSE LET r == set_leaf_pointers(tree, path \o <<i>>, last)
         IN  SetLeafPointersFrom(r.tree, path, i + 1,
                                 IF r.ret # None THEN r.ret ELSE last)

set_leaf_pointers(tree, path, last) ==
    LET node == NodeAt(tree, path)
    IN  IF node = None THEN [tree |-> tree, ret |-> None]
        ELSE IF IsLeaf(node)
        THEN [tree |-> IF last # None
                       THEN SetNext(SetPrev(tree, path, last), last.path, Ref(path))
                       ELSE SetPrev(tree, path, last),
              ret  |-> Ref(path)]
        ELSE SetLeafPointersFrom(tree, path, 1, last)

(***************************************************************************)
(* symbols.py: scopes.  A scope object carries its identity (inst); the    *)
(* dict key is what __eq__ and __hash__ look at.                           *)
(***************************************************************************)
BaseScope(inst) == [kind |-> "base", inst |-> inst]

ModelScope(name, inst) == [kind |-> "model", name |-> name, inst |-> inst]

FunctionScope(name, inst) == [kind |-> "function", name |-> name, inst |-> inst]

\* A key that looks at the name of a scope and not at its class
ScopeKey_NameOnly(scope) ==
    IF scope.kind = "base" THEN <<"_base", <<>>>>
    ELSE <<"scope", scope.name>>

ScopeKey(scope) ==
    IF scope.kind = "base" THEN <<"_base", <<>>>>
    ELSE <<scope.kind, scope.name>>

QName(scope, name) == [scope |-> scope, name |-> name]

VarSymbol(name, typ, type_name) ==
    [name |-> name, type |-> typ, type_name |-> type_name,
     decl_name |-> None, decl_node |-> None, value_node |-> None,
     annotations |-> <<>>]

(***************************************************************************)
(* symbols.py: SymbolTable.  The operators take and return the table       *)
(* object st = [table, issues, qnames].                                    *)
(***************************************************************************)
SymbolTable == [table |-> <<>>, issues |-> <<>>, qnames |-> <<>>]

\* self._table[scope] on a defaultdict(dict): the access creates the entry.
leaf_table(tbl, scope) ==
    IF ScopeKey(scope) \in DOMAIN tbl THEN tbl
    ELSE (ScopeKey(scope) :> <<>>) @@ tbl

\* leaf_table[name] = sym
SetSym(tbl, scope, name, sym) ==
    [tbl EXCEPT ![ScopeKey(scope)] = (name :> sym) @@ @]

\* Narrow that moves the defining token and forgets the type
Narrow_NoType(sym, qname, typ) ==
    [sym EXCEPT !.type_name = qname.name]

\* insert, "new type is valid and narrower": sym.type and sym.type_name are set.
\* Narrow that keeps the old defining token
Narrow_KeepToken(sym, qname, typ) == [sym EXCEPT !.type = typ]

Narrow(sym, qname, typ) ==
    [sym EXCEPT !.type = typ, !.type_name = qname.name]

\* SetDecl that keeps the first declaration
SetDecl_KeepFirst(sym, qname, decl_node) ==
    IF decl_node # None /\ sym.decl_node = None
    THEN [sym EXCEPT !.decl_node = decl_node, !.decl_name = qname.name]
    ELSE sym

\* insert, "if decl_node is not None": the declaration is overridden.
SetDecl(sym, qname, decl_node) ==
    IF decl_node # None
    THEN [sym EXCEPT !.decl_node = decl_node, !.decl_name = qname.name]
    ELSE sym

\* insert, "if value_node is not None": the issue of an obscured value.
ValueIssues(sym, qname, value_node) ==
    IF value_node # None /\ sym.value_node # None
    THEN <<ObscuredValue(sym.value_node.range, value_node.range, qname.name.text)>>
    ELSE <<>>

\* SetValue that keeps the first value node
SetValue_KeepFirst(sym, value_node) ==
    IF value_node # None /\ sym.value_node = None
    THEN [sym EXCEPT !.value_node = value_node]
    ELSE sym

SetValue(sym, value_node) ==
    IF value_node # None THEN [sym EXCEPT !.value_node = value_node] ELSE sym

\* The part of insert after the type comparison (the declaration and value
\* updates), for the symbol sym that the comparison left.
InsertTail(st, tbl, qname, sym, decl_node, value_node) ==
    [table  |-> SetSym(tbl, qname.scope, qname.name.text,
                       SetValue(SetDecl(sym, qname, decl_node), value_node)),
     issues |-> st.issues \o ValueIssues(sym, qname, value_node),
     qnames |-> Append(st.qnames, qname)]

\* Reject that records the issue and adopts the new type all the same
Reject_Adopt(st, tbl, sym, qname, typ, decl_node, value_node) ==
    [table  |-> SetSym(tbl, qname.scope, qname.name.text, Narrow(sym, qname, typ)),
     issues |-> Append(st.issues,
                       IncompatibleType(sym.type, sym.type_name.range,
                                        typ, qname.name.range)),
     qnames |-> Append(st.qnames, qname)]

\* Reject without its return: the declaration and value updates follow
Reject_NoReturn(st, tbl, sym, qname, typ, decl_node, value_node) ==
    InsertTail([st EXCEPT !.issues =
                   Append(@, IncompatibleType(sym.type, sym.type_name.range,
                                              typ, qname.name.range))],
               tbl, qname, sym, decl_node, value_node)

\* Reject of an insert that logs the qname after the type comparison
Reject_NoLog(st, tbl, sym, qname, typ, decl_node, value_node) ==
    [table  |-> tbl,
     issues |-> Append(st.issues,
                       IncompatibleType(sym.type, sym.type_name.range,
                                        typ, qname.name.range)),
     qnames |-> st.qnames]

\* insert, the else branch of the type comparison: the issue is appended and
\* the call returns.
Reject(st, tbl, sym, qname, typ, decl_node, value_node) ==
    [table  |-> tbl,
     issues |-> Append(st.issues,
                       IncompatibleType(sym.type, sym.type_name.range,
                                        typ, qname.name.range)),
     qnames |-> Append(st.qnames, qname)]

insert(st, qname, typ, decl_node, value_node) ==
    LET tbl  == leaf_table(st.table, qname.scope)
        leaf == tbl[ScopeKey(qname.scope)]
        name == qname.name.text
    IN  IF name \notin DOMAIN leaf
        THEN InsertTail(st, tbl, qname, VarSymbol(name, typ, qname.name),
                        decl_node, value_node)
        ELSE LET sym      == leaf[name]
                 old_type == sym.type
             IN  IF derives_from(typ, old_type)
                 THEN InsertTail(st, tbl, qname, Narrow(sym, qname, typ),
                                 decl_node, value_node)
                 ELSE IF derives_from(old_type, typ)
                 THEN InsertTail(st, tbl, qname, sym, decl_node, value_node)
                 ELSE Reject(st, tbl, sym, qname, typ, decl_node, value_node)

\* insert_annotation that makes a new symbol on every call
insert_annotation_Recreate(st, qname, node) ==
    LET tbl  == leaf_table(st.table, qname.scope)
        name == qname.name.text
        sym  == VarSymbol(name, "unknown", qname.name)
    IN  [st EXCEPT !.table =
            SetSym(tbl, qname.scope, name,
                   [sym EXCEPT !.annotations = Append(@, node)])]

insert_annotation(st, qname, node) ==
    LET tbl  == leaf_table(st.table, qname.scope)
        leaf == tbl[ScopeKey(qname.scope)]
        name == qname.name.text
        sym  == IF name \notin DOMAIN leaf
                THEN VarSymbol(name, "unknown", qname.name)
                ELSE leaf[name]
    IN  [st EXCEPT !.table =
            SetSym(tbl, qname.scope, name,
                   [sym EXCEPT !.annotations = Append(@, node)])]

get_all_names(st) ==
    UNION {DOMAIN st.table[k] : k \in DOMAIN st.table}

\* str(i) for i >= 0
Digits == <<"0", "1", "2", "3", "4", "5", "6", "7", "8", "9">>

RECURSIVE Str(_)
Str(i) == IF i < 10 THEN <<Digits[i + 1]>>
          ELSE Str(i \div 10) \o <<Digits[(i % 10) + 1]>>

\* '{}{}'.format(prefix, i)
Format(prefix, i) == prefix \o Str(i)

\* Probe that counts from i + 1
RECURSIVE Probe_FromNext(_, _, _)
Probe_FromNext(prefix, names, i) ==
    IF Format(prefix, i + 1) \notin names THEN Format(prefix, i + 1)
    ELSE Probe_FromNext(prefix, names, i + 1)

\* The loop "while True: name = format(prefix, i); if name not in names: break;
\* i += 1" entered with the counter at i.
RECURSIVE Probe(_, _, _)
Probe(prefix, names, i) ==
    IF Format(prefix, i) \notin names THEN Format(prefix, i)
    ELSE Probe(prefix, names, i + 1)

\* Returns the table object after the call and the returned name.
get_unique_name(st, prefix, scope) ==
    IF scope = None
    THEN [st |-> st, ret |-> Probe(prefix, get_all_names(st), 0)]
    ELSE LET tbl == leaf_table(st.table, scope)
         IN  [st  |-> [st EXCEPT !.table = tbl],
              ret |-> Probe(prefix, DOMAIN tbl[ScopeKey(scope)], 0)]

\* Returns the table object after the call and the returned list.
get(st, qname) ==
    LET tbl  == leaf_table(st.table, qname.scope)
        leaf == tbl[ScopeKey(qname.scope)]
        name == qname.name.text
    IN  [st  |-> [st EXCEPT !.table = tbl],
         ret |-> IF name \in DOMAIN leaf THEN <<leaf[name]>> ELSE <<>>]

(***************************************************************************)
(* The symbol table driven call by call.  The n-th call is handed the n-th *)
(* occurrence in the source: a Name token on line n, and, when the call    *)
(* passes them, a declaration node and a value node on that line.          *)
(***************************************************************************)
K0 == <<"k", "0">>
K1 == <<"k", "1">>
M  == <<"m">>

NameAt(text, n) ==
    Name(SrcRange(SrcPosition(n, 1), SrcPosition(n, 1 + Len(text))), text)

DeclAt(n) ==
    TrunkNode("Declaration", SrcRange(SrcPosition(n, 1), SrcPosition(n, 9)), <<>>)

ValueAt(n) ==
    TrunkNode("Assignment", SrcRange(SrcPosition(n, 1), SrcPosition(n, 7)), <<>>)

AnnotationAt(n) ==
    TrunkNode("Annotation", SrcRange(SrcPosition(n, 1), SrcPosition(n, 5)), <<>>)

\* The table object self, and its assignment.
Self == [table |-> table, issues |-> issues, qnames |-> qnames]

SetSelf(st) ==
    /\ table'  = st.table
    /\ issues' = st.issues
    /\ qnames' = st.qnames

\* The symbol of (scope, text) in tbl, None when there is none (a read that
\* does not go through the defaultdict).
Lookup(tbl, scope, text) ==
    IF ScopeKey(scope) \in DOMAIN tbl /\ text \in DOMAIN tbl[ScopeKey(scope)]
    THEN tbl[ScopeKey(scope)][text]
    ELSE None

\* A call of SymbolTable.insert
Insert(scope, text, typ, decl, value) ==
    LET n          == Len(calls) + 1
        qname      == QName(scope, NameAt(text, n))
        decl_node  == IF decl THEN DeclAt(n) ELSE None
        value_node == IF value THEN ValueAt(n) ELSE None
    IN  /\ SetSelf(insert(Self, qname, typ, decl_node, value_node))
        /\ calls' = Append(calls,
                           [op |-> "insert", qname |-> qname, typ |-> typ,
                            decl_node |-> decl_node, value_node |-> value_node,
                            node |-> None, old |-> Lookup(table, scope, text)])
        /\ UNCHANGED <<ret, cmp, analyzer>>

\* A call of SymbolTable.insert_annotation
InsertAnnotation(scope, text) ==
    LET n     == Len(calls) + 1
        qname == QName(scope, NameAt(text, n))
    IN  /\ SetSelf(insert_annotation(Self, qname, AnnotationAt(n)))
        /\ calls' = Append(calls,
                           [op |-> "insert_annotation", qname |-> qname,
                            typ |-> "unknown",
                            decl_node |-> None, value_node |-> None,
                            node |-> AnnotationAt(n),
                            old |-> Lookup(table, scope, text)])
        /\ UNCHANGED <<ret, cmp, analyzer>>

\* A call of SymbolTable.get_unique_name
GetUniqueName(prefix, scope) ==
    LET r == get_unique_name(Self, prefix, scope)
    IN  /\ SetSelf(r.st)
        /\ ret' = [op |-> "get_unique_name", prefix |-> prefix, scope |-> scope,
                   value |-> r.ret]
        /\ UNCHANGED <<calls, cmp, analyzer>>

\* A call of SymbolTable.get
Get(scope, text) ==
    LET r == get(Self, QName(scope, NameAt(text, 0)))
    IN  /\ SetSelf(r.st)
        /\ ret' = [op |-> "get", prefix |-> text, scope |-> scope, value |-> r.ret]
        /\ UNCHANGED <<calls, cmp, analyzer>>

\* A call of SymbolTable.get_all_names
GetAllNames ==
    /\ ret' = [op |-> "get_all_names", prefix |-> <<>>, scope |-> None,
               value |-> get_all_names(Self)]
    /\ UNCHANGED <<table, issues, qnames, calls, cmp, analyzer>>

InitTable ==
    /\ table  = SymbolTable.table
    /\ issues = SymbolTable.issues
    /\ qnames = SymbolTable.qnames
    /\ calls  = <<>>
    /\ ret    = None
    /\ cmp    = None
    /\ root   = None
    /\ pc     = "table"
    /\ syntax_issues = <<>>

(***************************************************************************)
(* Spec: one name of one scope, called MaxCalls times with and without     *)
(* declaration and value nodes.  The types are one or two of each group of *)
(* types that derives_from treats alike: the top, Variable, Parameter, two *)
(* of the types listed under Parameter, one that stands alone, and Event.  *)
(***************************************************************************)
TableTypes ==
    {"unknown", "variable", "parameter", "species", "compartment",
     "model", "event"}

TableInsert ==
    /\ Len(calls) < MaxCalls
    /\ \E typ \in TableTypes, decl \in BOOLEAN, value \in BOOLEAN :
          Insert(BaseScope(0), K0, typ, decl, value)

TableAnnotate ==
    /\ Len(calls) < MaxCalls
    /\ InsertAnnotation(BaseScope(0), K0)

Init == InitTable

Next == TableInsert \/ TableAnnotate

Spec == Init /\ [][Next]_vars

(***************************************************************************)
(* SpecPairs: two names of one scope, called MaxPairCalls times with every *)
(* SymbolType.                                                             *)
(***************************************************************************)
PairInsert ==
    /\ Len(calls) < MaxPairCalls
    /\ \E text \in {K0, K1}, typ \in SymbolType,
          decl \in BOOLEAN, value \in BOOLEAN :
          Insert(BaseScope(0), text, typ, decl, value)

NextPairs == PairInsert

SpecPairs == InitTable /\ [][NextPairs]_vars

(***************************************************************************)
(* SpecNames: the names k0 and k1 in the file's scope (two scope objects), *)
(* a model's and a function's, and the queries of the table.               *)
(***************************************************************************)
NameScopes == {BaseScope(0), BaseScope(1), ModelScope(M, 0), FunctionScope(M, 0)}

\* The (scope, name) pairs of the calls.
NameQNames ==
    {<<BaseScope(0), K0>>, <<BaseScope(0), K1>>, <<BaseScope(1), K0>>,
     <<ModelScope(M, 0), K0>>, <<FunctionScope(M, 0), K0>>}

Prefixes == {<<"k">>, <<"j">>}

NamesInsert ==
    /\ Len(calls) < MaxNameCalls
    /\ \E q \in NameQNames, typ \in {"parameter", "species"} :
          Insert(q[1], q[2], typ, FALSE, FALSE)

NamesGetUniqueName ==
    \E prefix \in Prefixes, scope \in NameScopes \cup {None} :
        GetUniqueName(prefix, scope)

NamesGet == \E q \in NameQNames : Get(q[1], q[2])

NextNames == NamesInsert \/ NamesGetUniqueName \/ NamesGet \/ GetAllNames

SpecNames == InitTable /\ [][NextNames]_vars

(***************************************************************************)
(* SpecScopes: the name k0 in two BaseScope objects, two ModelScope        *)
(* objects of one name, a ModelScope of another name and a FunctionScope   *)
(* of the first name, and the name k1: inserts, annotations and get.       *)
(***************************************************************************)
N == <<"n">>

ScopeQNames ==
    {<<BaseScope(0), K0>>, <<BaseScope(1), K0>>, <<BaseScope(0), K1>>,
     <<ModelScope(M, 0), K0>>, <<ModelScope(M, 1), K0>>, <<ModelScope(N, 0), K0>>,
     <<FunctionScope(M, 0), K0>>}

ScopesInsert ==
    /\ Len(calls) < MaxScopeCalls
    /\ \E q \in ScopeQNames, typ \in {"parameter", "species"} :
          Insert(q[1], q[2], typ, FALSE, FALSE)

ScopesAnnotate ==
    /\ Len(calls) < MaxScopeCalls
    /\ \E q \in ScopeQNames : InsertAnnotation(q[1], q[2])

\* one get, at any point of the calls
ScopesGet ==
    /\ ret = None
    /\ \E q \in ScopeQNames : Get(q[1], q[2])

NextScopes == ScopesInsert \/ ScopesAnnotate \/ ScopesGet

SpecScopes == InitTable /\ [][NextScopes]_vars

(***************************************************************************)
(* SpecLattice: derives_from called on the operands a, b, c that Init      *)
(* draws, every triple of types.                                           *)
(***************************************************************************)
InitLattice ==
    /\ table  = SymbolTable.table
    /\ issues = SymbolTable.issues
    /\ qnames = SymbolTable.qnames
    /\ calls  = <<>>
    /\ ret    = None
    /\ cmp \in [a : SymbolType, b : SymbolType, c : SymbolType]
    /\ root   = None
    /\ pc     = "table"
    /\ syntax_issues = <<>>

Compare ==
    /\ ret = None
    /\ ret' = [op |-> "derives_from",
               aa |-> derives_from(cmp.a, cmp.a),
               ab |-> derives_from(cmp.a, cmp.b),
               ba |-> derives_from(cmp.b, cmp.a),
               bc |-> derives_from(cmp.b, cmp.c),
               ac |-> derives_from(cmp.a, cmp.c),
               au |-> derives_from(cmp.a, "unknown")]
    /\ UNCHANGED <<table, issues, qnames, calls, cmp, analyzer>>

NextLattice == Compare

SpecLattice == InitLattice /\ [][NextLattice]_vars

(***************************************************************************)
(* analysis.py: AntTreeAnalyzer.  A handler is the sequence of table calls *)
(* it makes, in order; Apply makes them.                                   *)
(***************************************************************************)
InsertCall(qname, typ, decl_node, value_node) ==
    [op |-> "insert", qname |-> qname, typ |-> typ,
     decl_node |-> decl_node, value_node |-> value_node, node |-> None]

AnnotationCall(qname, node) ==
    [op |-> "insert_annotation", qname |-> qname, typ |-> "unknown",
     decl_node |-> None, value_node |-> None, node |-> node]

RECURSIVE Concat(_)
Concat(seqs) == IF seqs = <<>> THEN <<>> ELSE Head(seqs) \o Concat(Tail(seqs))

RECURSIVE Apply(_, _)
Apply(st, cs) ==
    IF cs = <<>> THEN st
    ELSE Apply(IF Head(cs).op = "insert"
               THEN insert(st, Head(cs).qname, Head(cs).typ,
                           Head(cs).decl_node, Head(cs).value_node)
               ELSE insert_annotation(st, Head(cs).qname, Head(cs).node),
               Tail(cs))

handle_child_incomp(scope, node) ==
    LET ds == descendants(node)
    IN  Concat([i \in 1..Len(ds) |->
                  IF ds[i].kind = "InComp"
                  THEN <<InsertCall(QName(scope, VarName_get_name(InComp_get_comp(ds[i]))),
                                    "compartment", None, None)>>
                  ELSE <<>>])

handle_arith_expr(scope, expr) ==
    IF ~IsTrunk(expr)
    THEN IF expr.kind = "Name"
         THEN <<InsertCall(QName(scope, expr), "parameter", None, None)>>
         ELSE <<>>
    ELSE LET ls == scan_leaves(expr)
         IN  Concat([i \in 1..Len(ls) |->
                       IF ls[i].kind = "Name"
                       THEN <<InsertCall(QName(scope, ls[i]), "parameter", None, None)>>
                       ELSE <<>>])

handle_reaction(scope, reaction) ==
    LET name == Reaction_get_name(reaction)
        sp   == Reaction_get_reactants(reaction) \o Reaction_get_products(reaction)
    IN  (IF name # None
         THEN <<InsertCall(QName(scope, name), "reaction", reaction, None)>>
         ELSE <<>>)
        \o [i \in 1..Len(sp) |->
              InsertCall(QName(scope, Species_get_name(sp[i])), "species", None, None)]
        \o handle_arith_expr(scope, Reaction_get_rate_law(reaction))

handle_assignment(scope, assignment) ==
    <<InsertCall(QName(scope, Assignment_get_name(assignment)), "parameter",
                 None, assignment)>>
    \o handle_arith_expr(scope, Assignment_get_value(assignment))

\* handle_declaration that passes the value expression as the value node
handle_declaration_ValueAsNode(scope, declaration) ==
    LET stype == DeclModifiers_get_type(Declaration_get_modifiers(declaration))
        items == Declaration_get_items(declaration)
    IN  Concat([i \in 1..Len(items) |->
          LET name  == VarName_get_name(
                          NameMaybeIn_get_var_name(DeclItem_get_maybein(items[i])))
              value == DeclItem_get_value(items[i])
          IN  <<InsertCall(QName(scope, name), stype, declaration, value)>>
              \o (IF value # None THEN handle_arith_expr(scope, value) ELSE <<>>)])

handle_declaration(scope, declaration) ==
    LET stype == DeclModifiers_get_type(Declaration_get_modifiers(declaration))
        items == Declaration_get_items(declaration)
    IN  Concat([i \in 1..Len(items) |->
          LET name  == VarName_get_name(
                          NameMaybeIn_get_var_name(DeclItem_get_maybein(items[i])))
              value == DeclItem_get_value(items[i])
              value_node == IF value # None THEN items[i] ELSE None
          IN  <<InsertCall(QName(scope, name), stype, declaration, value_node)>>
              \o (IF value # None THEN handle_arith_expr(scope, value) ELSE <<>>)])

\* handle_annotation that only records the annotation
handle_annotation_NoInsert(scope, annotation) ==
    LET qname == QName(scope, VarName_get_name(Annotation_get_var_name(annotation)))
    IN  <<AnnotationCall(qname, annotation)>>

handle_annotation(scope, annotation) ==
    LET qname == QName(scope, VarName_get_name(Annotation_get_var_name(annotation)))
    IN  <<InsertCall(qname, "parameter", None, None),
          AnnotationCall(qname, annotation)>>

\* The body of the loop of __init__ for one child of the root.
HandleChild(base_scope, child) ==
    IF child = None \/ child.kind \in {"ErrorToken", "ErrorNode"} THEN <<>>
    ELSE IF child.kind = "SimpleStmt"
    THEN LET stmt == SimpleStmt_get_stmt(child)
         IN  IF stmt = None THEN <<>>
             ELSE (CASE stmt.kind = "Reaction"    -> handle_reaction(base_scope, stmt)
                     [] stmt.kind = "Assignment"  -> handle_assignment(base_scope, stmt)
                     [] stmt.kind = "Declaration" -> handle_declaration(base_scope, stmt)
                     [] stmt.kind = "Annotation"  -> handle_annotation(base_scope, stmt))
                  \o handle_child_incomp(base_scope, stmt)
    ELSE <<>>

\* The table calls of a loop that ends at the first ErrorToken or ErrorNode.
AnalyzerCalls_StopAtError(file) ==
    Concat([i \in 1..Len(file.children) |->
              IF \E j \in 1..i : /\ file.children[j] # None
                                 /\ file.children[j].kind \in {"ErrorToken", "ErrorNode"}
              THEN <<>>
              ELSE HandleChild(BaseScope(0), file.children[i])])

\* The table calls of __init__ for the root, in order.
AnalyzerCalls(file) ==
    Concat([i \in 1..Len(file.children) |-> HandleChild(BaseScope(0), file.children[i])])

\* str.strip() of the whitespace of ASCII
Whitespace == {" ", "\t", "\n", "\r", "\f"}

RECURSIVE LStrip(_)
LStrip(text) ==
    IF text # <<>> /\ Head(text) \in Whitespace THEN LStrip(Tail(text)) ELSE text

RECURSIVE RStrip(_)
RStrip(text) ==
    IF text # <<>> /\ text[Len(text)] \in Whitespace
    THEN RStrip(SubSeq(text, 1, Len(text) - 1))
    ELSE text

Strip(text) == RStrip(LStrip(text))

\* NodeIssue that does not look at the last leaf's next
NodeIssue_AnyErrorNode(node) ==
    IF node.kind = "ErrorToken"
    THEN IF Strip(node.text) = <<>>
         THEN UnexpectedNewlineIssue(node.range.start)
         ELSE UnexpectedTokenIssue(node.range, node.text)
    ELSE IF node.kind = "ErrorNode"
    THEN IF last_leaf(node) # None
         THEN UnexpectedEOFIssue(last_leaf(node).range)
         ELSE None
    ELSE None

\* _record_syntax_issues: the issue of one child of the root, or None.
NodeIssue(node) ==
    IF node.kind = "ErrorToken"
    THEN IF Strip(node.text) = <<>>
         THEN UnexpectedNewlineIssue(node.range.start)
         ELSE UnexpectedTokenIssue(node.range, node.text)
    ELSE IF node.kind = "ErrorNode"
    THEN IF last_leaf(node) # None /\ last_leaf(node).next = None
         THEN UnexpectedEOFIssue(last_leaf(node).range)
         ELSE None
    ELSE None

\* Record that keeps every issue
Record_NoDedup(acc, issue) ==
    IF issue # None
    THEN [lines |-> acc.lines \cup {issue.range.start.line},
          syntax_issues |-> Append(acc.syntax_issues, issue)]
    ELSE acc

\* _record_syntax_issues, "only one issue per line"; acc is the set lines and
\* the list syntax_issues.
Record(acc, issue) ==
    IF issue # None /\ issue.range.start.line \notin acc.lines
    THEN [lines |-> acc.lines \cup {issue.range.start.line},
          syntax_issues |-> Append(acc.syntax_issues, issue)]
    ELSE acc

RECURSIVE RecordFrom(_, _, _)
RecordFrom(children, i, acc) ==
    IF i > Len(children) THEN acc
    ELSE IF children[i] = None THEN RecordFrom(children, i + 1, acc)
    ELSE RecordFrom(children, i + 1, Record(acc, NodeIssue(children[i])))

record_syntax_issues(file) ==
    RecordFrom(file.children, 1, [lines |-> {}, syntax_issues |-> <<>>]).syntax_issues

(***************************************************************************)
(* The trees the Analyzer is given: a FileNode of up to MaxChildren        *)
(* children on lines 1..MaxLine, in source order.  Child i starts at       *)
(* column SlotWidth * (i - 1) + 1 of its line; a trunk's range runs from   *)
(* its first leaf to its last.                                             *)
(***************************************************************************)
Tok(cls, line, col, text) ==
    LeafNode(cls, SrcRange(SrcPosition(line, col), SrcPosition(line, col + Len(text))),
             text)

RECURSIVE FirstPresent(_, _)
FirstPresent(children, i) ==
    IF children[i] # None THEN children[i] ELSE FirstPresent(children, i + 1)

RECURSIVE LastPresent(_, _)
LastPresent(children, i) ==
    IF children[i] # None THEN children[i] ELSE LastPresent(children, i - 1)

Trunk(cls, children) ==
    TrunkNode(cls,
              SrcRange(FirstPresent(children, 1).range.start,
                       LastPresent(children, Len(children)).range.end),
              children)

S_A == <<"A">>
S_B == <<"B">>

S_const == <<"c", "o", "n", "s", "t">>
S_identity == <<"i", "d", "e", "n", "t", "i", "t", "y">>
S_in == <<"i", "n">>

NameMaybeInOf(line, col, text) ==
    Trunk("NameMaybeIn",
          <<Trunk("VarName", <<None, Tok("Name", line, col, text)>>), None>>)

\* const species A = 5 ;
DeclSpecies(l, c) ==
    Trunk("SimpleStmt",
      <<Trunk("Declaration",
          <<Trunk("DeclModifiers",
                  <<Tok("VarModifier", l, c, S_const),
                    Tok("TypeModifier", l, c + 6, S_species)>>),
            Trunk("DeclItem",
                  <<NameMaybeInOf(l, c + 14, S_A),
                    Trunk("DeclAssignment",
                          <<Tok("Operator", l, c + 16, <<"=">>),
                            Tok("Number", l, c + 18, <<"5">>)>>)>>)>>),
        Tok("Operator", l, c + 19, <<";">>)>>)

\* const A ;
DeclPlain(l, c) ==
    Trunk("SimpleStmt",
      <<Trunk("Declaration",
          <<Trunk("DeclModifiers", <<Tok("VarModifier", l, c, S_const), None>>),
            Trunk("DeclItem", <<NameMaybeInOf(l, c + 6, S_A), None>>)>>),
        Tok("Operator", l, c + 7, <<";">>)>>)

\* A = 10 ;
AssignNumber(l, c) ==
    Trunk("SimpleStmt",
      <<Trunk("Assignment",
          <<NameMaybeInOf(l, c, S_A),
            Tok("Operator", l, c + 2, <<"=">>),
            Tok("Number", l, c + 4, <<"1", "0">>)>>),
        Tok("Operator", l, c + 6, <<";">>)>>)

\* B in A = A ;
AssignIn(l, c) ==
    Trunk("SimpleStmt",
      <<Trunk("Assignment",
          <<Trunk("NameMaybeIn",
              <<Trunk("VarName", <<None, Tok("Name", l, c, S_B)>>),
                Trunk("InComp",
                      <<Tok("Keyword", l, c + 2, S_in),
                        Trunk("VarName", <<None, Tok("Name", l, c + 5, S_A)>>)>>)>>),
            Tok("Operator", l, c + 7, <<"=">>),
            Tok("Name", l, c + 9, S_A)>>),
        Tok("Operator", l, c + 10, <<";">>)>>)

\* A identity "u" ;
AnnotationStmt(l, c) ==
    Trunk("SimpleStmt",
      <<Trunk("Annotation",
          <<Trunk("VarName", <<None, Tok("Name", l, c, S_A)>>),
            Tok("Keyword", l, c + 2, S_identity),
            Tok("StringLiteral", l, c + 11, <<"\"", "u", "\"">>)>>),
        Tok("Operator", l, c + 14, <<";">>)>>)

\* J: A -> B; k * A ;
ReactionStmt(l, c) ==
    Trunk("SimpleStmt",
      <<Trunk("Reaction",
          <<Trunk("ReactionName",
                  <<NameMaybeInOf(l, c, <<"J">>), Tok("Operator", l, c + 1, <<":">>)>>),
            Trunk("SpeciesList",
                  <<Trunk("Species", <<None, None, Tok("Name", l, c + 3, S_A)>>)>>),
            Tok("Operator", l, c + 5, <<"-", ">">>),
            Trunk("SpeciesList",
                  <<Trunk("Species", <<None, None, Tok("Name", l, c + 8, S_B)>>)>>),
            Tok("Operator", l, c + 9, <<";">>),
            Trunk("Product",
                  <<Tok("Name", l, c + 11, <<"k">>),
                    Tok("Operator", l, c + 13, <<"*">>),
                    Tok("Name", l, c + 15, S_A)>>),
            None>>),
        Tok("Operator", l, c + 16, <<";">>)>>)

\* ; (an empty statement)
EmptyStmt(l, c) ==
    Trunk("SimpleStmt", <<None, Tok("Operator", l, c, <<";">>)>>)

\* A = (the tokens before an unexpected token or the end of the file)
DanglingNode(l, c) ==
    Trunk("ErrorNode",
          <<NameMaybeInOf(l, c, S_A), Tok("Operator", l, c + 2, <<"=">>)>>)

\* an ErrorNode that holds no token
HollowNode(l, c) ==
    TrunkNode("ErrorNode", SrcRange(SrcPosition(l, c), SrcPosition(l, c)), <<None>>)

Templates ==
    {"DeclSpecies", "DeclPlain", "AssignNumber", "AssignIn", "AnnotationStmt",
     "ReactionStmt", "EmptyStmt", "ErrorToken", "ErrorNewline", "DanglingNode",
     "HollowNode"}

Child(t, l, c) ==
    CASE t = "DeclSpecies"    -> DeclSpecies(l, c)
      [] t = "DeclPlain"      -> DeclPlain(l, c)
      [] t = "AssignNumber"   -> AssignNumber(l, c)
      [] t = "AssignIn"       -> AssignIn(l, c)
      [] t = "AnnotationStmt" -> AnnotationStmt(l, c)
      [] t = "ReactionStmt"   -> ReactionStmt(l, c)
      [] t = "EmptyStmt"      -> EmptyStmt(l, c)
      [] t = "ErrorToken"     -> Tok("ErrorToken", l, c, <<"?">>)
      [] t = "ErrorNewline"   -> Tok("ErrorToken", l, c, <<"\n">>)
      [] t = "DanglingNode"   -> DanglingNode(l, c)
      [] t = "HollowNode"     -> HollowNode(l, c)

\* The lines of n children: in source order, and a child that follows an
\* unexpected newline is on a later line.
Layouts(ts) ==
    {ls \in [DOMAIN ts -> 1..MaxLine] :
        \A i \in DOMAIN ts : i > 1 =>
            /\ ls[i - 1] <= ls[i]
            /\ ts[i - 1] = "ErrorNewline" => ls[i - 1] < ls[i]}

FileNode(ts, ls) ==
    LET children == [i \in DOMAIN ts |-> Child(ts[i], ls[i], SlotWidth * (i - 1) + 1)]
    IN  TrunkNode("FileNode",
                  SrcRange(SrcPosition(1, 1),
                           IF children = <<>> THEN SrcPosition(1, 1)
                           ELSE children[Len(children)].range.end),
                  children)

(***************************************************************************)
(* SpecAnalyzer: the tree builder threads the leaves of a tree, then the   *)
(* Analyzer is constructed on it.                                          *)
(***************************************************************************)
InitAnalyzer ==
    /\ table  = SymbolTable.table
    /\ issues = SymbolTable.issues
    /\ qnames = SymbolTable.qnames
    /\ calls  = <<>>
    /\ ret    = None
    /\ cmp    = None
    /\ \E n \in 0..MaxChildren : \E ts \in [1..n -> Templates] :
          \E ls \in Layouts(ts) : root = FileNode(ts, ls)
    /\ pc     = "built"
    /\ syntax_issues = <<>>

\* set_leaf_pointers(root)
SetLeafPointers ==
    /\ pc = "built"
    /\ root' = set_leaf_pointers(root, <<>>, None).tree
    /\ pc' = "linked"
    /\ UNCHANGED <<table, issues, qnames, calls, ret, cmp, syntax_issues>>

\* AntTreeAnalyzer(root)
Analyze ==
    /\ pc = "linked"
    /\ SetSelf(Apply(SymbolTable, AnalyzerCalls(root)))
    /\ syntax_issues' = record_syntax_issues(root)
    /\ pc' = "done"
    /\ UNCHANGED <<calls, ret, cmp, root>>

NextAnalyzer == SetLeafPointers \/ Analyze

SpecAnalyzer == InitAnalyzer /\ [][NextAnalyzer]_vars

(***************************************************************************)
(* analysis.py: get_qname_at_position.  debug is Python's __debug__: the   *)
(* assert statements are executed when it is true and compiled away when   *)
(* it is false.                                                            *)
(***************************************************************************)
AssertionError == [kind |-> "AssertionError"]

\* Model.get_name / Function.get_name: assert False, 'Not implemented'
Model_get_name(node, debug) == IF debug THEN AssertionError ELSE None

Function_get_name(node, debug) == IF debug THEN AssertionError ELSE None

within_range(pos, node) ==
    /\ SrcPosition_ge(pos, node.range.start)
    /\ SrcPosition_lt(pos, node.range.end)

\* the for loop over node.children: the first child within range, or None
RECURSIVE FirstWithin(_, _, _)
FirstWithin(children, pos, i) ==
    IF i > Len(children) THEN None
    ELSE IF children[i] = None THEN FirstWithin(children, pos, i + 1)
    ELSE IF within_range(pos, children[i]) THEN children[i]
    ELSE FirstWithin(children, pos, i + 1)

\* str() of a dataclass node
DataclassStr(node) == <<node.kind, "(range=", node.range, ", text=", node.text, ")">>

\* the statements after the while loop
QNameAt(node, model, func, debug) ==
    IF debug /\ model # None /\ func # None THEN AssertionError
    ELSE IF model # None THEN QName(ModelScope(DataclassStr(model), 0), node)
    ELSE IF func # None THEN QName(FunctionScope(DataclassStr(func), 0), node)
    ELSE QName(BaseScope(0), node)

\* the while loop, at node
RECURSIVE Descend(_, _, _, _, _)
Descend(node, pos, model, func, debug) ==
    IF IsLeaf(node) THEN QNameAt(node, model, func, debug)
    ELSE IF node.kind = "Model" /\ debug /\ model # None THEN AssertionError
    ELSE IF node.kind = "Model" /\ Model_get_name(node, debug) = AssertionError
    THEN AssertionError
    ELSE IF node.kind = "Function" /\ debug /\ func # None THEN AssertionError
    ELSE IF node.kind = "Function" /\ Function_get_name(node, debug) = AssertionError
    THEN AssertionError
    ELSE IF FirstWithin(node.children, pos, 1) = None THEN None
    ELSE Descend(FirstWithin(node.children, pos, 1), pos,
                 IF node.kind = "Model" THEN Model_get_name(node, debug) ELSE model,
                 IF node.kind = "Function" THEN Function_get_name(node, debug) ELSE func,
                 debug)

get_qname_at_position(file, pos, debug) == Descend(file, pos, None, None, debug)

(***************************************************************************)
(* SpecPosition: get_qname_at_position asked about the positions of a      *)
(* linked tree: a file of up to MaxQueryChildren children, or the file of  *)
(* one model.                                                              *)
(***************************************************************************)
S_S1 == <<"S", "1">>

\* model m  S1 -> S2; k1 * S1;  end
ModelFile ==
    LET stmt == Trunk("SimpleStmt",
                  <<Trunk("Reaction",
                      <<None,
                        Trunk("SpeciesList",
                          <<Trunk("Species", <<None, None, Tok("Name", 1, 9, S_S1)>>)>>),
                        Tok("Operator", 1, 12, <<"-", ">">>),
                        Trunk("SpeciesList",
                          <<Trunk("Species", <<None, None, Tok("Name", 1, 15, <<"S", "2">>)>>)>>),
                        Tok("Operator", 1, 17, <<";">>),
                        Trunk("Product",
                          <<Tok("Name", 1, 19, <<"k", "1">>),
                            Tok("Operator", 1, 21, <<"*">>),
                            Tok("Name", 1, 22, S_S1)>>),
                        None>>),
                    Tok("Operator", 1, 24, <<";">>)>>)
        model == Trunk("Model",
                  <<Tok("Keyword", 1, 1, <<"m", "o", "d", "e", "l">>),
                    Tok("Name", 1, 7, M),
                    stmt,
                    Tok("Keyword", 1, 26, <<"e", "n", "d">>)>>)
    IN  TrunkNode("FileNode", model.range, <<model>>)

Positions ==
    {SrcPosition(l, c) : l \in 1..MaxLine, c \in 1..(SlotWidth * MaxQueryChildren + 10)}

InitPosition ==
    /\ table  = SymbolTable.table
    /\ issues = SymbolTable.issues
    /\ qnames = SymbolTable.qnames
    /\ calls  = <<>>
    /\ ret    = None
    /\ cmp    = None
    /\ \/ \E n \in 0..MaxQueryChildren : \E ts \in [1..n -> Templates] :
             \E ls \in Layouts(ts) :
                 root = set_leaf_pointers(FileNode(ts, ls), <<>>, None).tree
       \/ root = set_leaf_pointers(ModelFile, <<>>, None).tree
    /\ pc     = "linked"
    /\ syntax_issues = <<>>

\* get_qname_at_position(root, pos)
GetQNameAtPosition ==
    \E pos \in Positions, debug \in BOOLEAN :
        /\ ret = None
        /\ ret' = [op |-> "get_qname_at_position", pos |-> pos, debug |-> debug,
                   value |-> get_qname_at_position(root, pos, debug)]
        /\ UNCHANGED <<table, issues, qnames, calls, cmp, analyzer>>

NextPosition == GetQNameAtPosition

SpecPosition == InitPosition /\ [][NextPosition]_vars

(***************************************************************************)
(* SpecQueries: an Analyzer constructed on a linked tree of up to          *)
(* MaxQueryChildren children, then asked its queries, on the scopes and    *)
(* names of the file and on others.                                        *)
(***************************************************************************)
InitQueries ==
    /\ \E n \in 0..MaxQueryChildren : \E ts \in [1..n -> Templates] :
          \E ls \in Layouts(ts) :
              /\ root = set_leaf_pointers(FileNode(ts, ls), <<>>, None).tree
              /\ table  = Apply(SymbolTable, AnalyzerCalls(root)).table
              /\ issues = Apply(SymbolTable, AnalyzerCalls(root)).issues
              /\ qnames = Apply(SymbolTable, AnalyzerCalls(root)).qnames
              /\ syntax_issues = record_syntax_issues(root)
    /\ calls  = <<>>
    /\ ret    = None
    /\ cmp    = None
    /\ pc     = "done"

QueryScopes == {BaseScope(1), ModelScope(M, 0)}

\* AntTreeAnalyzer.resolve_qname(qname)
resolve_qname ==
    /\ pc = "done"
    /\ \E scope \in QueryScopes, text \in {S_A, K0} : Get(scope, text)

\* AntTreeAnalyzer.get_all_names()
AnalyzerGetAllNames ==
    /\ pc = "done"
    /\ GetAllNames

\* AntTreeAnalyzer.get_issues()
get_issues ==
    /\ pc = "done"
    /\ ret' = [op |-> "get_issues", prefix |-> <<>>, scope |-> None,
               value |-> issues \o syntax_issues]
    /\ UNCHANGED <<table, issues, qnames, calls, cmp, analyzer>>

\* AntTreeAnalyzer.get_unique_name(prefix)
AnalyzerGetUniqueName ==
    /\ pc = "done"
    /\ \E prefix \in Prefixes : GetUniqueName(prefix, None)

\* SymbolTable.get_unique_name(prefix, scope) on the Analyzer's table
TableGetUniqueName ==
    /\ pc = "done"
    /\ \E prefix \in Prefixes, scope \in QueryScopes : GetUniqueName(prefix, scope)

NextQueries ==
    \/ resolve_qname
    \/ AnalyzerGetAllNames
    \/ get_issues
    \/ AnalyzerGetUniqueName
    \/ TableGetUniqueName

SpecQueries == InitQueries /\ [][NextQueries]_vars

(***************************************************************************)
(* The claims about the symbol table.                                      *)
(***************************************************************************)
\* The step is a call of insert or insert_annotation; Call is that call.
Called == Len(calls') = Len(calls) + 1

Call == calls'[Len(calls')]

Key(c) == <<ScopeKey(c.qname.scope), c.qname.name.text>>

SymOf(tbl, c) == Lookup(tbl, c.qname.scope, c.qname.name.text)

\* Neither type derives from the other.
Incomparable(new, old) == ~derives_from(new, old) /\ ~derives_from(old, new)

\* The call c was an insert on an existing symbol whose type was incomparable
\* with the call's.
Conflicting(c) ==
    c.op = "insert" /\ c.old # None /\ Incomparable(c.typ, c.old.type)

Count(seq, kind) == Cardinality({i \in DOMAIN seq : seq[i].kind = kind})

NumConflicting(cs) == Cardinality({i \in DOMAIN cs : Conflicting(cs[i])})

\* C1: an insert whose type is incomparable with the type of the existing
\* symbol appends exactly one IncompatibleType issue (old type, range of the
\* current defining token, new type, range of the new occurrence) and leaves
\* the symbol's type and defining token unchanged; after any sequence of calls
\* the number of IncompatibleType issues is the number of such calls.
C1_Step ==
    Called =>
        /\ Conflicting(Call) =>
              /\ issues' = Append(issues,
                                  IncompatibleType(Call.old.type,
                                                   Call.old.type_name.range,
                                                   Call.typ,
                                                   Call.qname.name.range))
              /\ SymOf(table', Call).type = Call.old.type
              /\ SymOf(table', Call).type_name = Call.old.type_name
        /\ Count(issues', "IncompatibleType") = NumConflicting(calls')

C1_IncompatibleInsert == [][C1_Step]_vars

\* Species, then Compartment: one issue, the type stays Species; and a state
\* with two conflicting calls.
C1_Witness ==
    /\ Len(calls) = 2
    /\ calls[1].op = "insert" /\ calls[1].typ = "species"
    /\ calls[2].op = "insert" /\ calls[2].typ = "compartment"
    /\ Count(issues, "IncompatibleType") = 1
    /\ SymOf(table, calls[1]).type = "species"

\* C2: for types A, B with derives_from(B, A), inserting the same (scope, name)
\* into an empty table with A then B, or with B then A, both without
\* declaration and value nodes, ends with a single symbol of type B and no issue.
PlainInsert(c) == c.op = "insert" /\ c.decl_node = None /\ c.value_node = None

NumSymbols(tbl) ==
    Cardinality({k \in {<<sk, n>> : sk \in DOMAIN tbl, n \in get_all_names([table |-> tbl])} :
                    k[2] \in DOMAIN tbl[k[1]]})

C2_OrderIndependent ==
    (/\ Len(calls) = 2
     /\ PlainInsert(calls[1]) /\ PlainInsert(calls[2])
     /\ Key(calls[1]) = Key(calls[2])
     /\ \/ derives_from(calls[2].typ, calls[1].typ)
        \/ derives_from(calls[1].typ, calls[2].typ))
    => LET B == IF derives_from(calls[2].typ, calls[1].typ)
                THEN calls[2].typ ELSE calls[1].typ
       IN  /\ SymOf(table, calls[1]).type = B
           /\ NumSymbols(table) = 1
           /\ issues = <<>>

\* B = Species first, then A = Parameter.
C2_Witness ==
    /\ Len(calls) = 2
    /\ PlainInsert(calls[1]) /\ PlainInsert(calls[2])
    /\ Key(calls[1]) = Key(calls[2])
    /\ calls[1].typ = "species" /\ calls[2].typ = "parameter"
    /\ SymOf(table, calls[1]).type = "species"

\* C3: an insert of the same (scope, name, type) as the insert before it, both
\* without declaration and value nodes, the first of which did not conflict,
\* appends no IncompatibleType issue and leaves the symbol's type as the first
\* insert left it.
Repeated ==
    /\ Called
    /\ calls # <<>>
    /\ PlainInsert(Call) /\ PlainInsert(calls[Len(calls)])
    /\ Key(Call) = Key(calls[Len(calls)])
    /\ Call.typ = calls[Len(calls)].typ
    /\ ~Conflicting(calls[Len(calls)])

C3_Step ==
    Repeated =>
        /\ Count(issues', "IncompatibleType") = Count(issues, "IncompatibleType")
        /\ SymOf(table', Call).type = SymOf(table, Call).type

C3_SameInsertTwice == [][C3_Step]_vars

\* Species, then Parameter twice: the symbol is narrower than the repeated type.
C3_Witness ==
    /\ Len(calls) = 3
    /\ PlainInsert(calls[2]) /\ PlainInsert(calls[3])
    /\ calls[1].op = "insert" /\ calls[1].typ = "species"
    /\ calls[2].typ = "parameter" /\ calls[3].typ = "parameter"
    /\ SymOf(table, calls[3]).type = "species"
    /\ issues = <<>>

\* C5: an insert that detects an incompatible type leaves the symbol's
\* decl_name, decl_node and value_node as they were and appends no
\* ObscuredValue issue, whatever decl_node and value_node it was given.
C5_Step ==
    (Called /\ Conflicting(Call)) =>
        /\ SymOf(table', Call).decl_name  = Call.old.decl_name
        /\ SymOf(table', Call).decl_node  = Call.old.decl_node
        /\ SymOf(table', Call).value_node = Call.old.value_node
        /\ Count(issues', "ObscuredValue") = Count(issues, "ObscuredValue")

C5_ConflictAppliesNothing == [][C5_Step]_vars

\* A conflicting insert that carries both nodes, on a symbol that has both.
C5_Witness ==
    /\ calls # <<>>
    /\ Conflicting(calls[Len(calls)])
    /\ calls[Len(calls)].decl_node # None
    /\ calls[Len(calls)].value_node # None
    /\ calls[Len(calls)].old.value_node # None
    /\ calls[Len(calls)].old.decl_node # None
    /\ SymOf(table, calls[Len(calls)]).value_node = calls[Len(calls)].old.value_node

\* C6: an insert with a value_node and no type conflict appends an
\* ObscuredValue warning (old value node's range, new value node's range, the
\* name) exactly when the symbol had a value_node before, and nothing
\* otherwise, and leaves the symbol's value_node the one supplied; the insert
\* that creates the symbol appends no ObscuredValue.
C6_Step ==
    (Called /\ Call.op = "insert" /\ ~Conflicting(Call)) =>
        /\ Call.value_node # None =>
              /\ IF Call.old # None /\ Call.old.value_node # None
                 THEN issues' = Append(issues,
                                       ObscuredValue(Call.old.value_node.range,
                                                     Call.value_node.range,
                                                     Call.qname.name.text))
                 ELSE issues' = issues
              /\ SymOf(table', Call).value_node = Call.value_node
        /\ Call.old = None =>
              Count(issues', "ObscuredValue") = Count(issues, "ObscuredValue")

C6_ObscuredValue == [][C6_Step]_vars

\* A second value for a symbol: the warning is the last issue.
C6_Witness ==
    /\ Len(calls) >= 2
    /\ LET c == calls[Len(calls)]
       IN  /\ c.op = "insert" /\ ~Conflicting(c)
           /\ c.value_node # None
           /\ c.old # None /\ c.old.value_node # None
           /\ issues # <<>>
           /\ issues[Len(issues)].kind = "ObscuredValue"
           /\ issues[Len(issues)].severity = "Warning"
           /\ SymOf(table, c).value_node = c.value_node

\* C10: get_unique_name(prefix) returns prefix followed by the least i >= 0
\* for which prefix + str(i) names no symbol of any scope; with a scope, no
\* symbol of that scope.
NamesIn(tbl, scope) ==
    IF scope = None THEN UNION {DOMAIN tbl[k] : k \in DOMAIN tbl}
    ELSE IF ScopeKey(scope) \in DOMAIN tbl THEN DOMAIN tbl[ScopeKey(scope)]
    ELSE {}

Least(prefix, names) ==
    CHOOSE i \in 0..Cardinality(names) :
        /\ Format(prefix, i) \notin names
        /\ \A j \in 0..(i - 1) : Format(prefix, j) \in names

C10_Step ==
    (calls' = calls /\ ret' # None /\ ret'.op = "get_unique_name") =>
        ret'.value = Format(ret'.prefix, Least(ret'.prefix, NamesIn(table, ret'.scope)))

C10_UniqueName == [][C10_Step]_vars

\* With the names k0 and k1, get_unique_name("k") returned k2.
C10_Witness ==
    /\ ret # None /\ ret.op = "get_unique_name"
    /\ ret.prefix = <<"k">> /\ ret.scope = None
    /\ NamesIn(table, None) = {K0, K1}
    /\ ret.value = <<"k", "2">>

\* A scoped call that ignored a name of another scope.
C10_WitnessScoped ==
    /\ ret # None /\ ret.op = "get_unique_name"
    /\ ret.prefix = <<"k">> /\ ret.scope = ModelScope(M, 0)
    /\ NamesIn(table, None) = {K0}
    /\ NamesIn(table, ModelScope(M, 0)) = {}
    /\ ret.value = K0

\* C4: derives_from is a partial order with Unknown as top: reflexive,
\* antisymmetric, transitive, and derives_from(x, Unknown) for every x.
C4_PartialOrder ==
    (ret # None /\ ret.op = "derives_from") =>
        /\ ret.aa
        /\ (ret.ab /\ ret.ba) <=> (cmp.a = cmp.b)
        /\ ret.au
        /\ (ret.ab /\ ret.bc) => ret.ac

\* Species derives from Parameter, Parameter from Variable, Species from Variable.
C4_Witness ==
    /\ ret # None /\ ret.op = "derives_from"
    /\ cmp.a = "species" /\ cmp.b = "parameter" /\ cmp.c = "variable"
    /\ ret.ab /\ ret.bc /\ ret.ac /\ ~ret.ba

(***************************************************************************)
(* The claims about the Analyzer.                                          *)
(***************************************************************************)
Stmt(i) == SimpleStmt_get_stmt(root.children[i])

\* The file is a declaration "const species A = 5" and an assignment "A = 10".
DeclThenAssign ==
    /\ Len(root.children) = 2
    /\ root.children[1].kind = "SimpleStmt" /\ Stmt(1).kind = "Declaration"
    /\ DeclModifiers_get_type(Declaration_get_modifiers(Stmt(1))) = "species"
    /\ Len(Declaration_get_items(Stmt(1))) = 1
    /\ DeclItem_get_value(Declaration_get_items(Stmt(1))[1]) # None
    /\ root.children[2].kind = "SimpleStmt" /\ Stmt(2).kind = "Assignment"
    /\ Assignment_get_name(Stmt(2)).text = S_A
    /\ Assignment_get_value(Stmt(2)).kind = "Number"

\* C7: analyzing "const species A = 5" followed by "A = 10" gives one symbol,
\* A, of type Species, in the base scope, whose value_node is the assignment,
\* and one issue, an ObscuredValue warning from the declaration item's range
\* to the assignment's range.
C7_DeclThenAssign ==
    (pc = "done" /\ DeclThenAssign) =>
        /\ DOMAIN table = {ScopeKey(BaseScope(0))}
        /\ DOMAIN table[ScopeKey(BaseScope(0))] = {S_A}
        /\ table[ScopeKey(BaseScope(0))][S_A].name = S_A
        /\ table[ScopeKey(BaseScope(0))][S_A].type = "species"
        /\ table[ScopeKey(BaseScope(0))][S_A].value_node = Stmt(2)
        /\ issues = <<[kind |-> "ObscuredValue", severity |-> "Warning",
                       range |-> Declaration_get_items(Stmt(1))[1].range,
                       old_range |-> Declaration_get_items(Stmt(1))[1].range,
                       new_range |-> Stmt(2).range,
                       name |-> S_A]>>

C7_Witness ==
    /\ pc = "done" /\ DeclThenAssign
    /\ Len(issues) = 1 /\ issues[1].kind = "ObscuredValue"
    /\ Lookup(table, BaseScope(0), S_A).type = "species"

\* The children of the root that yield a syntax issue starting on line l.
Yields(l) ==
    {i \in DOMAIN root.children :
        /\ root.children[i] # None
        /\ NodeIssue(root.children[i]) # None
        /\ NodeIssue(root.children[i]).range.start.line = l}

First(S) == CHOOSE i \in S : \A j \in S : i <= j

\* Two unexpected tokens on line l.
TwoTokens(l) ==
    \E i, j \in DOMAIN root.children :
        /\ i < j
        /\ root.children[i].kind = "ErrorToken" /\ root.children[j].kind = "ErrorToken"
        /\ Strip(root.children[i].text) # <<>> /\ Strip(root.children[j].text) # <<>>
        /\ root.children[i].range.start.line = l
        /\ root.children[j].range.start.line = l

FirstToken(l) ==
    First({i \in DOMAIN root.children :
              /\ root.children[i].kind = "ErrorToken"
              /\ Strip(root.children[i].text) # <<>>
              /\ root.children[i].range.start.line = l})

\* C8: the recorded syntax issues hold at most one issue per line, the one of
\* the first child that yields an issue starting on that line; a line with
\* two unexpected tokens has exactly one UnexpectedToken issue, the first's.
C8_OneIssuePerLine ==
    pc = "done" =>
        /\ \A i, j \in DOMAIN syntax_issues :
              i # j => syntax_issues[i].range.start.line
                       # syntax_issues[j].range.start.line
        /\ \A l \in 1..MaxLine :
              /\ Yields(l) = {} =>
                    \A i \in DOMAIN syntax_issues :
                        syntax_issues[i].range.start.line # l
              /\ Yields(l) # {} =>
                    \E i \in DOMAIN syntax_issues :
                        /\ syntax_issues[i] = NodeIssue(root.children[First(Yields(l))])
                        /\ syntax_issues[i].range.start.line = l
              /\ TwoTokens(l) =>
                    \E i \in DOMAIN syntax_issues :
                        /\ syntax_issues[i].kind = "UnexpectedToken"
                        /\ syntax_issues[i].range = root.children[FirstToken(l)].range
                        /\ \A j \in DOMAIN syntax_issues :
                              (/\ syntax_issues[j].kind = "UnexpectedToken"
                               /\ syntax_issues[j].range.start.line = l) => j = i

\* Two unexpected tokens on one line: one issue.
C8_Witness ==
    /\ pc = "done"
    /\ \E l \in 1..MaxLine : TwoTokens(l)
    /\ Len(syntax_issues) = 1
    /\ syntax_issues[1].kind = "UnexpectedToken"
    /\ syntax_issues[1].range = root.children[1].range

\* The last leaf of the ErrorNode that is child k, read off its leaves in order.
Leaves(k) == scan_leaves(root.children[k])

EndsInput(k) ==
    /\ Leaves(k) # <<>>
    /\ Leaves(k)[Len(Leaves(k))].next = None

\* An earlier child of the root is an unexpected token on line l.
EarlierIssue(k, l) ==
    \E i \in 1..(k - 1) :
        /\ root.children[i].kind = "ErrorToken"
        /\ root.children[i].range.start.line = l

ErrorNodes == {k \in DOMAIN root.children : root.children[k].kind = "ErrorNode"}

\* C9: an ErrorNode child yields an UnexpectedEOF issue, at its last leaf's
\* range, exactly when it has a last leaf and that leaf's next is empty: the
\* UnexpectedEOF issues recorded are those of the ErrorNodes that end the
\* input and have no earlier issue on the line, one each; an ErrorNode whose
\* last leaf is the file's last leaf, with no earlier issue on its line, gives
\* exactly one UnexpectedEOF issue at that leaf's range.
C9_UnexpectedEOF ==
    pc = "done" =>
        LET eof == {i \in DOMAIN syntax_issues : syntax_issues[i].kind = "UnexpectedEOF"}
            due == {k \in ErrorNodes :
                       /\ EndsInput(k)
                       /\ ~EarlierIssue(k, Leaves(k)[Len(Leaves(k))].range.start.line)}
        IN  /\ Cardinality(eof) = Cardinality(due)
            /\ \A k \in due :
                  \E i \in eof :
                      syntax_issues[i] =
                          [kind |-> "UnexpectedEOF", severity |-> "Error",
                           range |-> Leaves(k)[Len(Leaves(k))].range]
            /\ \A k \in ErrorNodes :
                  (/\ Leaves(k) # <<>>
                   /\ Leaves(k)[Len(Leaves(k))].range =
                         scan_leaves(root)[Len(scan_leaves(root))].range
                   /\ ~EarlierIssue(k, Leaves(k)[Len(Leaves(k))].range.start.line))
                  => /\ k \in due
                     /\ Cardinality(eof) = 1

\* A statement, then "A =" at the end of the file: one UnexpectedEOF at "=".
C9_Witness ==
    /\ pc = "done"
    /\ Len(root.children) = 2
    /\ root.children[1].kind = "SimpleStmt"
    /\ root.children[2].kind = "ErrorNode"
    /\ Leaves(2) # <<>>
    /\ syntax_issues = <<[kind |-> "UnexpectedEOF", severity |-> "Error",
                          range |-> Leaves(2)[Len(Leaves(2))].range]>>

(***************************************************************************)
(* The claims about the Analyzer's queries.                                *)
(***************************************************************************)
\* The name is prefix, or prefix, an underscore and a number.
Documented(prefix, name) ==
    \/ name = prefix
    \/ \E i \in 0..9 : name = prefix \o <<"_">> \o Str(i)

\* C11: AntTreeAnalyzer.get_unique_name(prefix) returns prefix, or prefix_#.
C11_PrefixOrUnderscore ==
    (ret # None /\ ret.op = "get_unique_name" /\ ret.scope = None) =>
        Documented(ret.prefix, ret.value)

(***************************************************************************)
(* The claims about the leaf chain.                                        *)
(***************************************************************************)
\* The paths of the leaves under the node at path, in source order.
RECURSIVE LeafPaths(_, _)
RECURSIVE LeafPathsFrom(_, _, _)
LeafPathsFrom(node, path, i) ==
    IF i > Len(node.children) THEN <<>>
    ELSE IF node.children[i] = None THEN LeafPathsFrom(node, path, i + 1)
    ELSE LeafPaths(node.children[i], path \o <<i>>) \o LeafPathsFrom(node, path, i + 1)

LeafPaths(node, path) ==
    IF IsLeaf(node) THEN <<path>> ELSE LeafPathsFrom(node, path, 1)

\* The paths visited from path by following next, at most fuel of them.
RECURSIVE FollowNext(_, _)
FollowNext(path, fuel) ==
    IF fuel = 0 THEN <<>>
    ELSE IF NodeAt(root, path).next = None THEN <<path>>
    ELSE <<path>> \o FollowNext(NodeAt(root, path).next.path, fuel - 1)

RECURSIVE FollowPrev(_, _)
FollowPrev(path, fuel) ==
    IF fuel = 0 THEN <<>>
    ELSE IF NodeAt(root, path).prev = None THEN <<path>>
    ELSE <<path>> \o FollowPrev(NodeAt(root, path).prev.path, fuel - 1)

Reverse(seq) == [i \in DOMAIN seq |-> seq[Len(seq) + 1 - i]]

\* C12: after set_leaf_pointers(root), following next from the first leaf
\* visits every leaf once, in source order, and ends at a leaf without next;
\* following prev from the last leaf gives the reverse and ends at a leaf
\* without prev; x.next.prev is x and x.prev.next is x where the links exist.
C12_LeafChain ==
    (pc \in {"linked", "done"} /\ LeafPaths(root, <<>>) # <<>>) =>
        LET paths == LeafPaths(root, <<>>)
            n     == Len(paths)
        IN  /\ FollowNext(paths[1], n + 1) = paths
            /\ NodeAt(root, paths[n]).next = None
            /\ FollowPrev(paths[n], n + 1) = Reverse(paths)
            /\ NodeAt(root, paths[1]).prev = None
            /\ \A i \in 1..n :
                  LET x == NodeAt(root, paths[i])
                  IN  /\ x.next # None =>
                            NodeAt(root, x.next.path).prev = Ref(paths[i])
                      /\ x.prev # None =>
                            NodeAt(root, x.prev.path).next = Ref(paths[i])

\* A linked tree with an absent child slot, an interior node without leaves
\* and leaves on both sides of it.
C12_Witness ==
    /\ pc = "linked"
    /\ Len(root.children) = 2
    /\ root.children[1].kind = "ErrorNode"
    /\ scan_leaves(root.children[1]) = <<>>
    /\ \E i \in DOMAIN root.children[1].children : root.children[1].children[i] = None
    /\ Len(LeafPaths(root, <<>>)) >= 2
    /\ FollowNext(LeafPaths(root, <<>>)[1], 20) = LeafPaths(root, <<>>)

(***************************************************************************)
(* The claims about get_qname_at_position.                                 *)
(***************************************************************************)
Asked == ret # None /\ ret.op = "get_qname_at_position"

InModelFile == Len(root.children) = 1 /\ root.children[1].kind = "Model"

\* C13: in the tree of `model m; S1 -> S2; k1*S1; end`, a position inside
\* the S1 of the reaction gives a QName of scope ModelScope("m") whose leaf
\* is the Name S1, and a position inside the m of the model's declaration
\* gives a QName of scope BaseScope.
C13_ModelScope ==
    (Asked /\ InModelFile) =>
        /\ (ret.pos.line = 1 /\ ret.pos.column \in {9, 10}) =>
              /\ "scope" \in DOMAIN ret.value
              /\ ScopeKey(ret.value.scope) = ScopeKey(ModelScope(M, 0))
              /\ ret.value.name.kind = "Name"
              /\ ret.value.name.text = S_S1
        /\ (ret.pos.line = 1 /\ ret.pos.column = 7) =>
              /\ "scope" \in DOMAIN ret.value
              /\ ScopeKey(ret.value.scope) = ScopeKey(BaseScope(0))

\* The claim's descent: from node, to the first present child whose range
\* has start <= pos < end; None when a node has no such child.
Contains(node, pos) ==
    /\ \/ node.range.start.line < pos.line
       \/ node.range.start.line = pos.line /\ node.range.start.column <= pos.column
    /\ \/ pos.line < node.range.end.line
       \/ pos.line = node.range.end.line /\ pos.column < node.range.end.column

RECURSIVE LeafFor(_, _)
LeafFor(node, pos) ==
    IF IsLeaf(node) THEN node
    ELSE LET within == {i \in DOMAIN node.children :
                           node.children[i] # None /\ Contains(node.children[i], pos)}
         IN  IF within = {} THEN None
             ELSE LeafFor(node.children[First(within)], pos)

\* A Model or Function node lies on the claim's descent.
RECURSIVE CrossesScope(_, _)
CrossesScope(node, pos) ==
    IF IsLeaf(node) THEN FALSE
    ELSE \/ node.kind \in {"Model", "Function"}
         \/ LET within == {i \in DOMAIN node.children :
                              node.children[i] # None /\ Contains(node.children[i], pos)}
            IN  within # {} /\ CrossesScope(node.children[First(within)], pos)

\* C14: get_qname_at_position(root, pos) descends from the root to the first
\* present child whose range has start <= pos < end; it returns "not found"
\* as soon as a node on the way has no such child, and otherwise returns the
\* leaf it stops at, whose range contains pos (a position at a range's end is
\* not in it); with no Model or Function on the way the scope is BaseScope.
C14_Descent ==
    Asked =>
        /\ LeafFor(root, ret.pos) = None => ret.value = None
        /\ LeafFor(root, ret.pos) # None =>
              /\ "name" \in DOMAIN ret.value
              /\ ret.value.name = LeafFor(root, ret.pos)
              /\ IsLeaf(ret.value.name)
              /\ Contains(ret.value.name, ret.pos)
              /\ ret.pos # ret.value.name.range.end
              /\ ~CrossesScope(root, ret.pos) =>
                    ScopeKey(ret.value.scope) = ScopeKey(BaseScope(0))

(***************************************************************************)
(* The claims about the Analyzer and the children it skips.                *)
(***************************************************************************)
IsError(node) == node # None /\ node.kind \in {"ErrorToken", "ErrorNode"}

\* The elements of seq that are not ErrorToken or ErrorNode, in order.
RECURSIVE WithoutErrors(_)
WithoutErrors(seq) ==
    IF seq = <<>> THEN <<>>
    ELSE IF IsError(Head(seq)) THEN WithoutErrors(Tail(seq))
    ELSE <<Head(seq)>> \o WithoutErrors(Tail(seq))

\* The table and issue list of an Analyzer constructed on file.
Analyzed(file) == Apply(SymbolTable, AnalyzerCalls(file))

\* The names of the inserts that the statement child makes first.
FirstName(child) ==
    LET stmt == SimpleStmt_get_stmt(child)
    IN  CASE stmt.kind = "Declaration" ->
                 VarName_get_name(NameMaybeIn_get_var_name(
                     DeclItem_get_maybein(Declaration_get_items(stmt)[1])))
          [] stmt.kind = "Assignment" -> Assignment_get_name(stmt)
          [] stmt.kind = "Annotation" -> VarName_get_name(Annotation_get_var_name(stmt))
          [] stmt.kind = "Reaction"   -> Reaction_get_name(stmt)

\* C15: the table (symbols, types, decl and value nodes, qname log) and the
\* semantic issues of the Analyzer are those of the same root without its
\* ErrorToken and ErrorNode children; a statement after an error child is
\* analyzed; an ErrorToken child has a syntax issue on its line.
C15_ErrorsSkipped ==
    pc = "done" =>
        LET clean == [root EXCEPT !.children = WithoutErrors(root.children)]
        IN  /\ table  = Analyzed(clean).table
            /\ issues = Analyzed(clean).issues
            /\ qnames = Analyzed(clean).qnames
            /\ \A i, j \in DOMAIN root.children :
                  (/\ i < j /\ IsError(root.children[i])
                   /\ root.children[j].kind = "SimpleStmt"
                   /\ SimpleStmt_get_stmt(root.children[j]) # None) =>
                      \E k \in DOMAIN qnames :
                          qnames[k].name = FirstName(root.children[j])
            /\ \A i \in DOMAIN root.children :
                  root.children[i].kind = "ErrorToken" =>
                      \E k \in DOMAIN syntax_issues :
                          syntax_issues[k].range.start.line
                              = root.children[i].range.start.line

\* An unexpected token, then a declaration: the declaration is in the table
\* and the token in the syntax issues.
C15_Witness ==
    /\ pc = "done"
    /\ Len(root.children) = 2
    /\ root.children[1].kind = "ErrorToken"
    /\ root.children[2].kind = "SimpleStmt"
    /\ SimpleStmt_get_stmt(root.children[2]) # None
    /\ SimpleStmt_get_stmt(root.children[2]).kind = "Declaration"
    /\ Len(qnames) >= 1
    /\ Lookup(table, BaseScope(0), S_A) # None
    /\ Len(syntax_issues) = 1

\* C16: once the Analyzer is constructed, no query (resolve_qname,
\* get_all_names, get_issues, get_unique_name with or without a scope)
\* changes the table's per-scope mappings, a symbol, the qname log or the
\* semantic and syntax issue lists.
C16_Step ==
    pc = "done" =>
        /\ table' = table
        /\ issues' = issues
        /\ qnames' = qnames
        /\ syntax_issues' = syntax_issues

C16_QueriesChangeNothing == [][C16_Step]_vars

(***************************************************************************)
(* More claims about the symbol table.                                     *)
(***************************************************************************)
\* The nodes of the insert_annotation calls of cs on the (scope, name) key.
RECURSIVE AnnotationsOf(_, _)
AnnotationsOf(cs, key) ==
    IF cs = <<>> THEN <<>>
    ELSE IF Head(cs).op = "insert_annotation" /\ Key(Head(cs)) = key
    THEN <<Head(cs).node>> \o AnnotationsOf(Tail(cs), key)
    ELSE AnnotationsOf(Tail(cs), key)

\* C17: insert_annotation(qname, node) leaves the type, defining token, decl
\* and value node of an existing symbol and the issues unchanged, creates a
\* symbol of type Unknown when there is none, and appends node to the
\* symbol's annotations: after any calls the list is the nodes of the
\* insert_annotation calls on that (scope, name), in call order.
C17_Step ==
    (Called /\ Call.op = "insert_annotation") =>
        /\ issues' = issues
        /\ SymOf(table', Call) # None
        /\ Call.old # None =>
              /\ SymOf(table', Call).type = Call.old.type
              /\ SymOf(table', Call).type_name = Call.old.type_name
              /\ SymOf(table', Call).decl_name = Call.old.decl_name
              /\ SymOf(table', Call).decl_node = Call.old.decl_node
              /\ SymOf(table', Call).value_node = Call.old.value_node
              /\ SymOf(table', Call).annotations
                    = Append(Call.old.annotations, Call.node)
        /\ Call.old = None =>
              /\ SymOf(table', Call).type = "unknown"
              /\ SymOf(table', Call).annotations = <<Call.node>>
        /\ SymOf(table', Call).annotations = AnnotationsOf(calls', Key(Call))

C17_InsertAnnotation == [][C17_Step]_vars

\* An annotation that creates the symbol, an insert that narrows it, and a
\* second annotation.
C17_Witness ==
    /\ Len(calls) = 3
    /\ calls[1].op = "insert_annotation" /\ calls[1].old = None
    /\ calls[2].op = "insert" /\ calls[2].typ = "species" /\ calls[2].value_node # None
    /\ calls[3].op = "insert_annotation"
    /\ SymOf(table, calls[3]).type = "species"
    /\ SymOf(table, calls[3]).annotations = <<calls[1].node, calls[3].node>>

(***************************************************************************)
(* The claims about annotation statements.                                 *)
(***************************************************************************)
\* Child j of the root is an annotation statement.
IsAnnotation(j) ==
    /\ root.children[j].kind = "SimpleStmt"
    /\ SimpleStmt_get_stmt(root.children[j]) # None
    /\ SimpleStmt_get_stmt(root.children[j]).kind = "Annotation"

\* The Analyzer's table and issues after the first j children of the root.
UpTo(j) == Analyzed([root EXCEPT !.children = SubSeq(@, 1, j)])

AnnotatedName(j) ==
    VarName_get_name(Annotation_get_var_name(SimpleStmt_get_stmt(root.children[j]))).text

\* The annotated symbol before and after the statement that is child j.
SymBefore(j) == Lookup(UpTo(j - 1).table, BaseScope(0), AnnotatedName(j))

SymAfter(j) == Lookup(UpTo(j).table, BaseScope(0), AnnotatedName(j))

\* C18 as stated: handling an Annotation statement does not change the type
\* of an existing symbol, whatever that type, Unknown included, produces no
\* issue, and records the annotation node.
C18_TypeUntouched ==
    pc = "done" =>
        /\ table = UpTo(Len(root.children)).table
        /\ \A j \in DOMAIN root.children :
              (IsAnnotation(j) /\ SymBefore(j) # None) =>
                  /\ SymAfter(j).type = SymBefore(j).type
                  /\ UpTo(j).issues = UpTo(j - 1).issues
                  /\ SymAfter(j).annotations
                        = Append(SymBefore(j).annotations,
                                 SimpleStmt_get_stmt(root.children[j]))

\* C18, amended: handling an Annotation statement does not change the type
\* of an existing symbol unless that type is Unknown, which becomes
\* Parameter; it produces no issue, leaves the decl and value nodes, and
\* appends the annotation node to the symbol's annotations.
C18_TypeAtMostParameter ==
    pc = "done" =>
        /\ table = UpTo(Len(root.children)).table
        /\ issues = UpTo(Len(root.children)).issues
        /\ \A j \in DOMAIN root.children :
              (IsAnnotation(j) /\ SymBefore(j) # None) =>
                  /\ SymAfter(j).type = IF SymBefore(j).type = "unknown"
                                        THEN "parameter"
                                        ELSE SymBefore(j).type
                  /\ UpTo(j).issues = UpTo(j - 1).issues
                  /\ SymAfter(j).decl_node = SymBefore(j).decl_node
                  /\ SymAfter(j).value_node = SymBefore(j).value_node
                  /\ SymAfter(j).annotations
                        = Append(SymBefore(j).annotations,
                                 SimpleStmt_get_stmt(root.children[j]))

\* `const A;` then an annotation of A: A was Unknown and is Parameter.
C18_Witness ==
    /\ pc = "done"
    /\ Len(root.children) = 2
    /\ IsAnnotation(2)
    /\ SymBefore(2) # None
    /\ SymBefore(2).type = "unknown"
    /\ Lookup(table, BaseScope(0), S_A).type = "parameter"
    /\ Len(Lookup(table, BaseScope(0), S_A).annotations) = 1
    /\ issues = <<>>

(***************************************************************************)
(* The claims about the qname log and the type of a symbol.                *)
(***************************************************************************)
\* The qnames of the insert calls of cs, in call order.
RECURSIVE InsertedQNames(_)
InsertedQNames(cs) ==
    IF cs = <<>> THEN <<>>
    ELSE IF Head(cs).op = "insert"
    THEN <<Head(cs).qname>> \o InsertedQNames(Tail(cs))
    ELSE InsertedQNames(Tail(cs))

\* What the insert call c did to the symbol it found.
Outcome(c) ==
    IF c.old = None THEN "created"
    ELSE IF Conflicting(c) THEN "rejected"
    ELSE IF c.typ # c.old.type /\ derives_from(c.typ, c.old.type) THEN "narrowed"
    ELSE "no information"

\* C19: every insert appends its qname to the log, whether it creates the
\* symbol, narrows it, adds nothing or is rejected: the log has one entry per
\* insert call, in call order, and no step removes or reorders entries.
C19_Step ==
    IF Called /\ Call.op = "insert"
    THEN /\ qnames' = Append(qnames, Call.qname)
         /\ qnames' = InsertedQNames(calls')
    ELSE qnames' = qnames

C19_LogEveryInsert == [][C19_Step]_vars

\* Three inserts: one creates, one narrows, one is rejected; three entries.
C19_Witness ==
    /\ Len(calls) = 3
    /\ \A i \in 1..3 : calls[i].op = "insert"
    /\ Outcome(calls[1]) = "created"
    /\ Outcome(calls[2]) = "narrowed"
    /\ Outcome(calls[3]) = "rejected"
    /\ qnames = <<calls[1].qname, calls[2].qname, calls[3].qname>>

\* The call c created the symbol, or was an insert of a type that is the
\* symbol's type or narrower.
Adopted(c) ==
    \/ c.old = None
    \/ c.op = "insert" /\ derives_from(c.typ, c.old.type)

\* The last call of cs on the (scope, name) key whose type was adopted.
LastAdopted(cs, key) ==
    CHOOSE i \in DOMAIN cs :
        /\ Key(cs[i]) = key /\ Adopted(cs[i])
        /\ \A j \in DOMAIN cs : (Key(cs[j]) = key /\ Adopted(cs[j])) => j <= i

\* C20: over insert and insert_annotation calls the type of a symbol never
\* widens, the type after a call derives_from the type before it, and the
\* defining token (type_name) is the name token of the most recent call
\* whose type was adopted.
C20_Step ==
    Called =>
        /\ Call.old # None =>
              /\ derives_from(SymOf(table', Call).type, Call.old.type)
              /\ (SymOf(table', Call).type # Call.old.type) =>
                    ~derives_from(Call.old.type, SymOf(table', Call).type)
        /\ SymOf(table', Call).type_name
              = calls'[LastAdopted(calls', Key(Call))].qname.name
        /\ SymOf(table', Call).type_name
              = IF Adopted(Call) THEN Call.qname.name ELSE Call.old.type_name

C20_NeverWidens == [][C20_Step]_vars

\* Parameter, then Species (adopted), then Variable (wider, not adopted):
\* the type is Species and the defining token is the second call's.
C20_Witness ==
    /\ Len(calls) = 3
    /\ calls[1].op = "insert" /\ calls[1].typ = "parameter"
    /\ calls[2].op = "insert" /\ calls[2].typ = "species"
    /\ calls[3].op = "insert" /\ calls[3].typ = "variable"
    /\ SymOf(table, calls[3]).type = "species"
    /\ SymOf(table, calls[3]).type_name = calls[2].qname.name
    /\ calls[2].qname.name # calls[1].qname.name
    /\ issues = <<>>

(***************************************************************************)
(* The claims about declarations, the subtypes of Parameter and scopes.    *)
(***************************************************************************)
\* The call c was an insert with a decl_node, of a type that does not
\* conflict, on a symbol that had a declaration.
Redeclared(c) ==
    /\ c.op = "insert" /\ c.decl_node # None
    /\ c.old # None /\ c.old.decl_node # None
    /\ ~Conflicting(c)

\* C21 as stated: a second insert with a decl_node for a name that has a
\* declaration, the types not conflicting, produces no diagnostic and
\* replaces decl_node and decl_name; no state has an ObscuredDeclaration.
C21_Stated ==
    Called =>
        /\ Redeclared(Call) =>
              /\ issues' = issues
              /\ SymOf(table', Call).decl_node = Call.decl_node
              /\ SymOf(table', Call).decl_name = Call.qname.name
        /\ Count(issues', "ObscuredDeclaration") = 0

C21_NoDiagnostic == [][C21_Stated]_vars

\* C21, amended: such an insert replaces decl_node and decl_name and
\* produces no diagnostic for the declaration: it appends nothing, except
\* one ObscuredValue when it also carries a value_node and the symbol
\* already had a value; no state has an ObscuredDeclaration.
C21_Step ==
    Called =>
        /\ Redeclared(Call) =>
              /\ SymOf(table', Call).decl_node = Call.decl_node
              /\ SymOf(table', Call).decl_name = Call.qname.name
              /\ IF Call.value_node # None /\ Call.old.value_node # None
                 THEN /\ Len(issues') = Len(issues) + 1
                      /\ SubSeq(issues', 1, Len(issues)) = issues
                      /\ issues'[Len(issues')].kind = "ObscuredValue"
                 ELSE issues' = issues
        /\ Count(issues', "ObscuredDeclaration") = 0

C21_NoObscuredDeclaration == [][C21_Step]_vars

\* Two declarations of compatible types, neither with a value: the second
\* is the symbol's declaration and there is no issue.
C21_Witness ==
    /\ Len(calls) = 2
    /\ Redeclared(calls[2])
    /\ calls[2].value_node = None
    /\ SymOf(table, calls[2]).decl_node = calls[2].decl_node
    /\ SymOf(table, calls[2]).decl_node # calls[1].decl_node
    /\ SymOf(table, calls[2]).decl_name = calls[2].qname.name
    /\ issues = <<>>

\* The types that SymbolType lists as subtypes of Parameter.
ParameterSubtypes == {"species", "compartment", "reaction", "event", "constraint"}

\* C22: every type listed as a subtype of Parameter derives_from Parameter
\* and Variable, so an insert of Parameter for a symbol of such a type is
\* not an incompatible-type conflict.
C22_Step ==
    (/\ Called /\ Call.op = "insert" /\ Call.typ = "parameter"
     /\ Call.old # None /\ Call.old.type \in ParameterSubtypes) =>
        /\ derives_from(Call.old.type, "parameter")
        /\ derives_from(Call.old.type, "variable")
        /\ Count(issues', "IncompatibleType") = Count(issues, "IncompatibleType")
        /\ SymOf(table', Call).type = Call.old.type

C22_SubtypesOfParameter == [][C22_Step]_vars

\* The scopes have the same kind (Base, Model, Function) and the same name.
SameScope(s1, s2) ==
    /\ s1.kind = s2.kind
    /\ s1.kind # "base" => s1.name = s2.name

\* C23: an insert or insert_annotation on (scope, name) leaves the symbol of
\* every other (scope, name) unchanged, the same name in another scope
\* included; scopes of the same kind and name share the symbol, so that
\* ModelScope("m") and FunctionScope("m") hold separate symbols and two
\* BaseScope objects one; get returns a list of 0 or 1 symbols.
C23_Step ==
    /\ Called =>
          \A q \in ScopeQNames :
              IF SameScope(q[1], Call.qname.scope) /\ q[2] = Call.qname.name.text
              THEN /\ Lookup(table', q[1], q[2]) # None
                   /\ Lookup(table', q[1], q[2]) = SymOf(table', Call)
                   /\ get([table |-> table', issues |-> issues', qnames |-> qnames'],
                          QName(q[1], NameAt(q[2], 0))).ret = <<SymOf(table', Call)>>
              ELSE /\ Lookup(table', q[1], q[2]) = Lookup(table, q[1], q[2])
                   /\ get([table |-> table', issues |-> issues', qnames |-> qnames'],
                          QName(q[1], NameAt(q[2], 0))).ret
                        = get([table |-> table, issues |-> issues, qnames |-> qnames],
                              QName(q[1], NameAt(q[2], 0))).ret
    /\ (calls' = calls /\ ret' # None /\ ret'.op = "get") =>
          /\ Len(ret'.value) \in {0, 1}
          /\ Len(ret'.value) = 1 <=>
                \E i \in DOMAIN calls :
                    /\ SameScope(calls[i].qname.scope, ret'.scope)
                    /\ calls[i].qname.name.text = ret'.prefix

C23_ScopesIndependent == [][C23_Step]_vars

\* k0 is Species in ModelScope("m") and Parameter in FunctionScope("m").
C23_Witness ==
    /\ Len(calls) = 2
    /\ calls[1].op = "insert" /\ calls[1].typ = "species"
    /\ calls[1].qname.scope = ModelScope(M, 0)
    /\ calls[2].op = "insert" /\ calls[2].typ = "parameter"
    /\ calls[2].qname.scope = FunctionScope(M, 0)
    /\ Lookup(table, ModelScope(M, 1), K0).type = "species"
    /\ Lookup(table, FunctionScope(M, 0), K0).type = "parameter"
    /\ Lookup(table, ModelScope(N, 0), K0) = None
    /\ issues = <<>>

\* A symbol inserted through one BaseScope object and narrowed through another.
C23_WitnessBase ==
    /\ Len(calls) = 2
    /\ calls[1].qname.scope = BaseScope(0) /\ calls[1].typ = "parameter"
    /\ calls[2].qname.scope = BaseScope(1) /\ calls[2].typ = "species"
    /\ calls[1].qname.name.text = K0 /\ calls[2].qname.name.text = K0
    /\ calls[2].old # None
    /\ Lookup(table, BaseScope(0), K0).type = "species"

====
